---- MODULE Spec2Model ----
(***************************************************************************)
(* Fringe-counting PMD estimation scripts of src/OSA_automatization:       *)
(*   test_fin.py               peaks+valleys, automatic delta ("fin")      *)
(*   test_new_auto_deltaDB.py  peaks only, automatic delta, fallback       *)
(*                             ("new")                                     *)
(*   test_no_savgol.py         peaks+valleys, fixed delta_db ("nosg")      *)
(*   throwaway.py              peaks only, threshold mask ("thr")          *)
(* and the measurement loops that record the traces:                       *)
(*   OSA_polarizer_works_trace_A_only.py   ("osa_A")                       *)
(*   osa_and_polarizer.py                  ("osa_pol")                     *)
(*                                                                         *)
(* Quantities in dB are integers in units of 0.05 dB (so 0.05 dB = 1,      *)
(* 5.0 dB = 100, 0.01 dB = 1/5).  A hysteresis delta is kept exactly, as   *)
(* the real number (a*sqrt(r) + b)/c with integers a >= 0, r >= 0, c > 0:  *)
(* the square root comes from np.std.  Arithmetic is that of the reals;    *)
(* IEEE rounding of the Python floats is not modelled.                     *)
(***************************************************************************)
EXTENDS Integers, Sequences, FiniteSets, TLC

VARIABLES
    variant,        \* which script runs: "fin", "new" or "nosg"
    inten,          \* intensity column of the CSV (units of 0.05 dB)
    wl,             \* wavelength column of the CSV (nm)
    use_scan,       \* user setting scan_method / use_scan
    lambda_min,     \* user setting, nm
    lambda_max,     \* user setting, nm
    fiber_length_km,\* user setting, a fraction <<numerator, denominator>> of a km
    pc,             \* position of the script
    noise_sigma,    \* result of estimate_noise_db
    initial_delta,  \* max(0.05, k_sigma * noise_sigma)
    deltas,         \* candidates of the scan (np.linspace)
    counts,         \* extrema count of every candidate
    delta_db,       \* the hysteresis delta in use
    d,              \* loop variable of the fallback loop
    k,              \* index of the next fallback probe
    i,              \* index of the next sample of the running peakdet pass
    det,            \* local state of the running peakdet pass
    max_tab,        \* maxima returned by the final detection
    min_tab,        \* minima returned by the final detection
    N_ext,          \* extrema (or peak) count
    delta_t_s,      \* value of delta_t_s after the guarded line (nosg)
    delta_t_ps,     \* differential group delay
    D_pmd,          \* PMD coefficient
    err,            \* the exception or exit that ended the script, if any
    rows,           \* rows of the CSV not yet read
    threshold_db,   \* user setting of throwaway.py
    x_kept,         \* x = wl[mask]: wavelengths that pass the threshold mask
    y_kept,         \* y = inten[mask]: intensities that pass the threshold mask
    peaks_idx,      \* indices returned by find_peaks_only
    passes,         \* the detector passes of a scan evaluated out of order
    run,            \* 1 in the first run of a script, 2 in its repetition
    first,          \* what the first run ended with
    valovna,        \* wavelength data read from the OSA in this measurement
    jakost,         \* intensity data read from the OSA in this measurement
    files,          \* the CSV files of OUTPUT_DIR: measurement number -> data rows
    reported        \* measurements for which an error message was printed

vars == <<variant, inten, wl, use_scan, lambda_min, lambda_max, fiber_length_km, pc,
          noise_sigma, initial_delta, deltas, counts, delta_db, d, k, i, det,
          max_tab, min_tab, N_ext, delta_t_s, delta_t_ps, D_pmd, err,
          rows, threshold_db, x_kept, y_kept, peaks_idx, passes, run, first,
          valovna, jakost, files, reported>>

----------------------------------------------------------------------------
(* Bounds of the model and program constants *)

MaxLen == 5         \* longest trace over all the levels
LongLen == 7        \* longest trace over the two lowest levels
ScanSteps == 10     \* scan_steps handed to choose_delta_scan
ShortLen == 3       \* longest trace where the user settings vary widely
MaskLen == 4        \* longest trace of the threshold script
PassSteps == 3      \* scan_steps of a scan whose passes interleave
MaxRows == 2        \* most data rows of a CSV file read row by row
NMeasurements == 3  \* N_MEASUREMENTS of the measurement loops
MaxFields == 2      \* most comma-separated fields of a response of the OSA

ScanMin == 1        \* scan_min = 0.05 dB
ScanMax == 100      \* scan_max = 5.0 dB
FloorDb == 1        \* the 0.05 in max(0.05, k_sigma * noise_sigma)
KSigma == 3         \* k_sigma
ProbeSteps == 10    \* the 10 of np.linspace(delta_db, ..., 10)
ProbeFloorDen == 5  \* 0.01 dB = 1/5 in units of 0.05 dB
ProbeDiv == 10      \* delta_db / 10
KMilli == 805       \* K = 0.805, in thousandths

Levels == {-400, -360, -320}        \* -20 dB, -18 dB, -16 dB
LowLevels == {-400, -360}
DetLevels == {-400, -380, -200}     \* -20 dB, -19 dB, -10 dB
DetDeltas == {20, 100}              \* delta_db settings: 1 dB, 5 dB
CallDeltas == {-20, 0, 20, 100}     \* delta arguments: -1 dB, 0 dB, 1 dB, 5 dB
MaskLevels == {-1000, -600, -160, -100} \* -50 dB, -30 dB, -8 dB, -5 dB
Thresholds == {-20, 0, 360, 400}    \* threshold_db settings: -1, 0, 18, 20 dB
ThrDeltas == {0, 20}                \* delta_db settings of throwaway.py: 0 (off), 1 dB
LambdaSettings == {<<1580, 1710>>, <<1580, 1580>>}
FiberSettings == {<<1, 100>>}       \* 0.01 km
\* fiber_length_km as a user may set it: 0.01 km, 0 km, -0.01 km
AnyFiberSettings == {<<1, 100>>, <<0, 1>>, <<-1, 100>>}

Traces(levels, n) == UNION {[1..m -> levels] : m \in 1..n}
\* traces of the automatic-delta scripts: the long ones give np.std a tail of
\* two samples
AutoTraces ==
    Traces(Levels, MaxLen) \cup {t \in Traces(LowLevels, LongLen) : Len(t) > MaxLen}
WlGrid(n) == [j \in 1..n |-> 1579 + j]

None == [none |-> TRUE]

----------------------------------------------------------------------------
(* Exact numbers *)

RECURSIVE GCD(_, _)
GCD(x, y) == IF y = 0 THEN x ELSE GCD(y, x % y)

Abs(x) == IF x < 0 THEN -x ELSE x

\* the real number (a*sqrt(r) + b)/c, in lowest terms
Real(a, r, b, c) ==
    LET g == GCD(GCD(Abs(a), Abs(b)), c)
        rr == IF a = 0 THEN 0 ELSE r
    IN [a |-> a \div g, r |-> rr, b |-> b \div g, c |-> c \div g]

Rat(b, c) == Real(0, 0, b, c)

\* an integer difference diff is strictly greater than the real x
Exceeds(diff, x) ==
    LET L == x.c * diff - x.b
    IN L > 0 /\ L * L > x.a * x.a * x.r

\* x > 0
Positive(x) == x.b > 0 \/ x.a * x.a * x.r > x.b * x.b

\* sign(p*sqrt(r) + q) > 0 for integers p, q
SurdPositive(p, r, q) ==
    IF p >= 0 /\ q >= 0 THEN (p > 0 /\ r > 0) \/ q > 0
    ELSE IF p <= 0 /\ q <= 0 THEN FALSE
    ELSE IF p > 0 THEN p * p * r > q * q
    ELSE p * p * r < q * q

RadOf(x, y) == IF x.a # 0 THEN x.r ELSE y.r

\* x > y, for two reals over the same square root
RealGt(x, y) ==
    SurdPositive(x.a * y.c - y.a * x.c, RadOf(x, y), x.b * y.c - y.b * x.c)

\* floats with the infinities that peakdet starts from
NegInf == [inf |-> -1, val |-> 0]
PosInf == [inf |-> 1, val |-> 0]
Num(n) == [inf |-> 0, val |-> n]
ExtGt(x, y) == IF x.inf # y.inf THEN x.inf > y.inf ELSE x.inf = 0 /\ x.val > y.val
ExtLt(x, y) == ExtGt(y, x)

\* positions, np.nan until a sample has been seen
NaN == [nan |-> TRUE, val |-> 0]
At(p) == [nan |-> FALSE, val |-> p]

\* the integer diff equals the real x
RealEq0(diff, x) == x.c * diff = x.b /\ (x.a = 0 \/ x.r = 0)

\* this < mx - delta  and  this > mn + delta
BelowBy(this, mx, delta) ==
    IF mx.inf # 0 THEN mx.inf > 0 ELSE Exceeds(mx.val - this, delta)
AboveBy(this, mn, delta) ==
    IF mn.inf # 0 THEN mn.inf < 0 ELSE Exceeds(this - mn.val, delta)

\* np.linspace(start, stop, num)[j], j = 0 .. num-1
Linspace(start, stop, num, j) ==
    IF num = 1 THEN start
    ELSE Real((num - 1 - j) * start.a * stop.c + j * stop.a * start.c,
              RadOf(start, stop),
              (num - 1 - j) * start.b * stop.c + j * stop.b * start.c,
              (num - 1) * start.c * stop.c)

----------------------------------------------------------------------------
(* Billauer peakdet: test_fin.py and test_no_savgol.py (maxima and minima) *)

\* lines 51-54: the locals before the loop
\* PeakdetInit with the scan starting on the look-out for a minimum
PeakdetInitLookForMin ==
    [maxtab |-> <<>>, mintab |-> <<>>, mn |-> PosInf, mx |-> NegInf,
     mnpos |-> NaN, mxpos |-> NaN, lookformax |-> FALSE]

PeakdetInit ==
    [maxtab |-> <<>>, mintab |-> <<>>, mn |-> PosInf, mx |-> NegInf,
     mnpos |-> NaN, mxpos |-> NaN, lookformax |-> TRUE]

\* PeakdetStep with the falling test written  this < mx  (no hysteresis)
PeakdetStepNoDelta(s, this, xi, delta) ==
    LET s1 == IF ExtGt(Num(this), s.mx)
              THEN [s EXCEPT !.mx = Num(this), !.mxpos = At(xi)] ELSE s
        s2 == IF ExtLt(Num(this), s1.mn)
              THEN [s1 EXCEPT !.mn = Num(this), !.mnpos = At(xi)] ELSE s1
    IN IF s2.lookformax
       THEN IF ExtLt(Num(this), s2.mx)
            THEN [s2 EXCEPT !.maxtab = Append(@, <<s2.mxpos, s2.mx>>),
                            !.mn = Num(this), !.mnpos = At(xi),
                            !.lookformax = FALSE]
            ELSE s2
       ELSE IF AboveBy(this, s2.mn, delta)
            THEN [s2 EXCEPT !.mintab = Append(@, <<s2.mnpos, s2.mn>>),
                            !.mx = Num(this), !.mxpos = At(xi),
                            !.lookformax = TRUE]
            ELSE s2

\* PeakdetStep with the rising test inverted:  this <= mn + delta
PeakdetStepRiseInverted(s, this, xi, delta) ==
    LET s1 == IF ExtGt(Num(this), s.mx)
              THEN [s EXCEPT !.mx = Num(this), !.mxpos = At(xi)] ELSE s
        s2 == IF ExtLt(Num(this), s1.mn)
              THEN [s1 EXCEPT !.mn = Num(this), !.mnpos = At(xi)] ELSE s1
    IN IF s2.lookformax
       THEN IF BelowBy(this, s2.mx, delta)
            THEN [s2 EXCEPT !.maxtab = Append(@, <<s2.mxpos, s2.mx>>),
                            !.mn = Num(this), !.mnpos = At(xi),
                            !.lookformax = FALSE]
            ELSE s2
       ELSE IF ~AboveBy(this, s2.mn, delta)
            THEN [s2 EXCEPT !.mintab = Append(@, <<s2.mnpos, s2.mn>>),
                            !.mx = Num(this), !.mxpos = At(xi),
                            !.lookformax = TRUE]
            ELSE s2

\* PeakdetStep with the sign of delta slipped in the falling test:  this < mx + delta
PeakdetStepFallPlus(s, this, xi, delta) ==
    LET s1 == IF ExtGt(Num(this), s.mx)
              THEN [s EXCEPT !.mx = Num(this), !.mxpos = At(xi)] ELSE s
        s2 == IF ExtLt(Num(this), s1.mn)
              THEN [s1 EXCEPT !.mn = Num(this), !.mnpos = At(xi)] ELSE s1
    IN IF s2.lookformax
       THEN IF ~AboveBy(this, s2.mx, delta) /\ ~(s2.mx.inf = 0 /\ RealEq0(this - s2.mx.val, delta))
            THEN [s2 EXCEPT !.maxtab = Append(@, <<s2.mxpos, s2.mx>>),
                            !.mn = Num(this), !.mnpos = At(xi),
                            !.lookformax = FALSE]
            ELSE s2
       ELSE IF AboveBy(this, s2.mn, delta)
            THEN [s2 EXCEPT !.mintab = Append(@, <<s2.mnpos, s2.mn>>),
                            !.mx = Num(this), !.mxpos = At(xi),
                            !.lookformax = TRUE]
            ELSE s2

\* PeakdetStep with the running extrema moved on a tie:  this >= mx, this <= mn
PeakdetStepLatest(s, this, xi, delta) ==
    LET s1 == IF ~ExtLt(Num(this), s.mx)
              THEN [s EXCEPT !.mx = Num(this), !.mxpos = At(xi)] ELSE s
        s2 == IF ~ExtGt(Num(this), s1.mn)
              THEN [s1 EXCEPT !.mn = Num(this), !.mnpos = At(xi)] ELSE s1
    IN IF s2.lookformax
       THEN IF BelowBy(this, s2.mx, delta)
            THEN [s2 EXCEPT !.maxtab = Append(@, <<s2.mxpos, s2.mx>>),
                            !.mn = Num(this), !.mnpos = At(xi),
                            !.lookformax = FALSE]
            ELSE s2
       ELSE IF AboveBy(this, s2.mn, delta)
            THEN [s2 EXCEPT !.mintab = Append(@, <<s2.mnpos, s2.mn>>),
                            !.mx = Num(this), !.mxpos = At(xi),
                            !.lookformax = TRUE]
            ELSE s2

\* lines 57-71: one iteration of the loop, on sample this = v[i] at x[i]
PeakdetStep(s, this, xi, delta) ==
    LET s1 == IF ExtGt(Num(this), s.mx)
              THEN [s EXCEPT !.mx = Num(this), !.mxpos = At(xi)] ELSE s
        s2 == IF ExtLt(Num(this), s1.mn)
              THEN [s1 EXCEPT !.mn = Num(this), !.mnpos = At(xi)] ELSE s1
    IN IF s2.lookformax
       THEN IF BelowBy(this, s2.mx, delta)
            THEN [s2 EXCEPT !.maxtab = Append(@, <<s2.mxpos, s2.mx>>),
                            !.mn = Num(this), !.mnpos = At(xi),
                            !.lookformax = FALSE]
            ELSE s2
       ELSE IF AboveBy(this, s2.mn, delta)
            THEN [s2 EXCEPT !.mintab = Append(@, <<s2.mnpos, s2.mn>>),
                            !.mx = Num(this), !.mxpos = At(xi),
                            !.lookformax = TRUE]
            ELSE s2

RECURSIVE PeakdetLoop(_, _, _, _, _)
PeakdetLoop(s, v, x, delta, j) ==
    IF j > Len(v) THEN s
    ELSE PeakdetLoop(PeakdetStep(s, v[j], x[j], delta), v, x, delta, j + 1)

\* PeakdetResult that commits the running extremum when the loop ends
PeakdetResultForced(s) ==
    [exit |-> "none",
     maxtab |-> IF s.lookformax /\ ~s.mxpos.nan
                THEN Append(s.maxtab, <<s.mxpos, s.mx>>) ELSE s.maxtab,
     mintab |-> IF ~s.lookformax
                THEN Append(s.mintab, <<s.mnpos, s.mn>>) ELSE s.mintab]

\* line 72: return np.array(maxtab), np.array(mintab); nothing is committed for
\* the run in progress when the loop ends
PeakdetResult(s) == [exit |-> "none", maxtab |-> s.maxtab, mintab |-> s.mintab]

\* lines 46-49: the two sys.exit preconditions
PeakdetExit(v, delta, x) ==
    IF Len(v) # Len(x) THEN "v and x must be same length"
    ELSE IF ~Positive(delta) THEN "delta must be a positive scalar"
    ELSE "none"

\* peakdet(v, delta, x): the pair (maxtab, mintab), or the exit
Peakdet(v, delta, x) ==
    IF PeakdetExit(v, delta, x) # "none"
    THEN [exit |-> PeakdetExit(v, delta, x), maxtab |-> <<>>, mintab |-> <<>>]
    ELSE PeakdetResult(PeakdetLoop(PeakdetInit, v, x, delta, 1))

----------------------------------------------------------------------------
(* peakdet_peaks: test_new_auto_deltaDB.py (maxima only) *)

PeakdetPeaksInit ==
    [maxtab |-> <<>>, mn |-> PosInf, mx |-> NegInf,
     mnpos |-> NaN, mxpos |-> NaN, lookformax |-> TRUE]

\* PeakdetPeaksStep that, not keeping minima, also drops the restart of the
\* running maximum when the trace turns up
PeakdetPeaksStepNoRestart(s, this, xi, delta) ==
    LET s1 == IF ExtGt(Num(this), s.mx)
              THEN [s EXCEPT !.mx = Num(this), !.mxpos = At(xi)] ELSE s
        s2 == IF ExtLt(Num(this), s1.mn)
              THEN [s1 EXCEPT !.mn = Num(this), !.mnpos = At(xi)] ELSE s1
    IN IF s2.lookformax
       THEN IF BelowBy(this, s2.mx, delta)
            THEN [s2 EXCEPT !.maxtab = Append(@, <<s2.mxpos, s2.mx>>),
                            !.mn = Num(this), !.mnpos = At(xi),
                            !.lookformax = FALSE]
            ELSE s2
       ELSE IF AboveBy(this, s2.mn, delta)
            THEN [s2 EXCEPT !.lookformax = TRUE]
            ELSE s2

\* test_new_auto_deltaDB.py lines 75-88: one iteration of the loop
PeakdetPeaksStep(s, this, xi, delta) ==
    LET s1 == IF ExtGt(Num(this), s.mx)
              THEN [s EXCEPT !.mx = Num(this), !.mxpos = At(xi)] ELSE s
        s2 == IF ExtLt(Num(this), s1.mn)
              THEN [s1 EXCEPT !.mn = Num(this), !.mnpos = At(xi)] ELSE s1
    IN IF s2.lookformax
       THEN IF BelowBy(this, s2.mx, delta)
            THEN [s2 EXCEPT !.maxtab = Append(@, <<s2.mxpos, s2.mx>>),
                            !.mn = Num(this), !.mnpos = At(xi),
                            !.lookformax = FALSE]
            ELSE s2
       ELSE IF AboveBy(this, s2.mn, delta)
            THEN [s2 EXCEPT !.mx = Num(this), !.mxpos = At(xi),
                            !.lookformax = TRUE]
            ELSE s2

RECURSIVE PeakdetPeaksLoop(_, _, _, _, _)
PeakdetPeaksLoop(s, v, x, delta, j) ==
    IF j > Len(v) THEN s
    ELSE PeakdetPeaksLoop(PeakdetPeaksStep(s, v[j], x[j], delta), v, x, delta, j + 1)

\* line 89: return np.array(maxtab)
PeakdetPeaksResult(s) == [exit |-> "none", maxtab |-> s.maxtab]

PeakdetPeaks(v, delta, x) ==
    IF PeakdetExit(v, delta, x) # "none"
    THEN [exit |-> PeakdetExit(v, delta, x), maxtab |-> <<>>]
    ELSE PeakdetPeaksResult(PeakdetPeaksLoop(PeakdetPeaksInit, v, x, delta, 1))

----------------------------------------------------------------------------
(* peakdet_peaks of throwaway.py *)

\* np.column_stack((x, v)): one row per sample
ColumnStack(x, v) == [j \in 1..Len(v) |-> <<At(x[j]), Num(v[j])>>]

\* throwaway.py lines 60-86: with delta <= 0 every sample is returned as a row;
\* lines 64-86 are the loop and the return of test_new_auto_deltaDB.py
ThrPeakdetPeaks(v, delta, x) ==
    IF ~Positive(delta)
    THEN [exit |-> "none", maxtab |-> ColumnStack(x, v)]
    ELSE PeakdetPeaksResult(PeakdetPeaksLoop(PeakdetPeaksInit, v, x, delta, 1))

----------------------------------------------------------------------------
(* Threshold mask and neighbour peak finder of throwaway.py *)

\* inten.max(), of a trace with at least one sample
RECURSIVE MaxOf(_)
MaxOf(v) ==
    IF Len(v) = 1 THEN v[1]
    ELSE IF Head(v) >= MaxOf(Tail(v)) THEN Head(v) ELSE MaxOf(Tail(v))

\* ThresholdMask with a strict comparison
ThresholdMaskStrict(v, threshold) ==
    [j \in 1..Len(v) |-> v[j] > MaxOf(v) - threshold]

\* line 104: mask = inten >= (inten.max() - threshold_db)
ThresholdMask(v, threshold) ==
    [j \in 1..Len(v) |-> v[j] >= MaxOf(v) - threshold]

\* lines 105-106: a[mask], the elements of a where mask is True, in order
RECURSIVE Kept(_, _, _)
Kept(a, mask, j) ==
    IF j > Len(a) THEN <<>>
    ELSE (IF mask[j] THEN <<a[j]>> ELSE <<>>) \o Kept(a, mask, j + 1)

\* lines 44-57: indices (from 0) of the samples strictly greater than their
\* neighbours, the two ends compared with their one neighbour
FindPeaksOnly(xs, ys) ==
    LET n == Len(ys)
        core == [j \in 1..n |->
                    IF j = 1 THEN ys[1] > ys[2]
                    ELSE IF j = n THEN ys[n] > ys[n - 1]
                    ELSE ys[j] > ys[j - 1] /\ ys[j] > ys[j + 1]]
    IN IF n < 3 THEN <<>> ELSE Kept([j \in 1..n |-> j - 1], core, 1)

----------------------------------------------------------------------------
(* Noise estimate and the noise-based delta *)

RECURSIVE Insert(_, _)
Insert(x, seq) ==
    IF seq = <<>> THEN <<x>>
    ELSE IF x < Head(seq) THEN <<x>> \o seq
    ELSE <<Head(seq)>> \o Insert(x, Tail(seq))

RECURSIVE SortAsc(_)
SortAsc(seq) == IF seq = <<>> THEN <<>> ELSE Insert(Head(seq), SortAsc(Tail(seq)))

RECURSIVE Sum(_)
Sum(seq) == IF seq = <<>> THEN 0 ELSE Head(seq) + Sum(Tail(seq))

RECURSIVE SumSq(_)
SumSq(seq) == IF seq = <<>> THEN 0 ELSE Head(seq) * Head(seq) + SumSq(Tail(seq))

\* np.std of a segment of m values: sqrt(m*sum(x^2) - sum(x)^2)/m, nan when m = 0
Std(seg) ==
    LET m == Len(seg)
    IN IF m = 0 THEN [nan |-> TRUE, rad |-> 0, den |-> 1]
       ELSE [nan |-> FALSE, rad |-> m * SumSq(seg) - Sum(seg) * Sum(seg), den |-> m]

\* test_fin.py: idx = np.argsort(intensities_db)[:int(frac*n)], frac = 0.3
EstimateNoiseDbFin(intensities_db) ==
    LET n == Len(intensities_db)
    IN Std(SubSeq(SortAsc(intensities_db), 1, (3 * n) \div 10))

\* test_new_auto_deltaDB.py: idx = np.argsort(int_db)[:int(max(1, frac*n))]
EstimateNoiseDbNew(int_db) ==
    LET n == Len(int_db)
        m == IF 3 * n > 10 THEN (3 * n) \div 10 ELSE 1
    IN Std(SubSeq(SortAsc(int_db), 1, m))

\* InitialDelta without the floor: k_sigma * noise_sigma
InitialDeltaNoFloor(sigma) == Real(KSigma, sigma.rad, 0, sigma.den)

\* max(0.05, k_sigma * noise_sigma): Python's max keeps its first argument
\* unless the second compares greater, and no comparison with nan is true
InitialDelta(sigma) ==
    IF ~sigma.nan /\ RealGt(Real(KSigma, sigma.rad, 0, sigma.den), Rat(FloorDb, 1))
    THEN Real(KSigma, sigma.rad, 0, sigma.den)
    ELSE Rat(FloorDb, 1)

----------------------------------------------------------------------------
(* Plateau scan *)

\* deltas = np.linspace(dmin, dmax, steps)
ScanDeltas(dmin, dmax, steps) ==
    [j \in 1..steps |-> Linspace(Rat(dmin, 1), Rat(dmax, 1), steps, j - 1)]

\* counts of test_fin.py: len(max_tab) + len(min_tab) for every candidate
ScanCountsFin(y_db, x, ds) ==
    [j \in 1..Len(ds) |->
        Len(Peakdet(y_db, ds[j], x).maxtab) + Len(Peakdet(y_db, ds[j], x).mintab)]

\* counts of test_new_auto_deltaDB.py: len(peakdet_peaks(...))
ScanCountsNew(int_db, x, ds) ==
    [j \in 1..Len(ds) |-> Len(PeakdetPeaks(int_db, ds[j], x).maxtab)]

\* RunLoopFin with  length >= best_len : the last of the longest runs wins
RECURSIVE RunLoopFinLastWins(_, _, _, _, _, _)
RunLoopFinLastWins(ds, cs, j, start, best_len, best_delta) ==
    IF j > Len(cs) THEN best_delta
    ELSE IF j = Len(cs) \/ cs[j + 1] # cs[start + 1]
         THEN LET length == j - start
              IN IF length >= best_len
                 THEN RunLoopFinLastWins(ds, cs, j + 1, j, length, ds[start + length \div 2 + 1])
                 ELSE RunLoopFinLastWins(ds, cs, j + 1, j, best_len, best_delta)
         ELSE RunLoopFinLastWins(ds, cs, j + 1, start, best_len, best_delta)

\* RunLoopFin with the midpoint taken from the start of the table:
\* deltas[length // 2]
RECURSIVE RunLoopFinNoStart(_, _, _, _, _, _)
RunLoopFinNoStart(ds, cs, j, start, best_len, best_delta) ==
    IF j > Len(cs) THEN best_delta
    ELSE IF j = Len(cs) \/ cs[j + 1] # cs[start + 1]
         THEN LET length == j - start
              IN IF length > best_len
                 THEN RunLoopFinNoStart(ds, cs, j + 1, j, length, ds[length \div 2 + 1])
                 ELSE RunLoopFinNoStart(ds, cs, j + 1, j, best_len, best_delta)
         ELSE RunLoopFinNoStart(ds, cs, j + 1, start, best_len, best_delta)

\* test_fin.py lines 94-102; indices are those of the code (from 0)
RECURSIVE RunLoopFin(_, _, _, _, _, _)
RunLoopFin(ds, cs, j, start, best_len, best_delta) ==
    IF j > Len(cs) THEN best_delta
    ELSE IF j = Len(cs) \/ cs[j + 1] # cs[start + 1]
         THEN LET length == j - start
              IN IF length > best_len
                 THEN RunLoopFin(ds, cs, j + 1, j, length, ds[start + length \div 2 + 1])
                 ELSE RunLoopFin(ds, cs, j + 1, j, best_len, best_delta)
         ELSE RunLoopFin(ds, cs, j + 1, start, best_len, best_delta)

\* RunLoopNew without the test  counts[start] > 0 : a run of zero count can win
RECURSIVE RunLoopNewAnyRun(_, _, _, _, _, _)
RunLoopNewAnyRun(ds, cs, j, start, best_len, best_delta) ==
    IF j > Len(cs) THEN best_delta
    ELSE IF j = Len(cs) \/ cs[j + 1] # cs[start + 1]
         THEN LET seg_len == j - start
              IN IF seg_len > best_len
                 THEN RunLoopNewAnyRun(ds, cs, j + 1, j, seg_len, ds[start + seg_len \div 2 + 1])
                 ELSE RunLoopNewAnyRun(ds, cs, j + 1, j, best_len, best_delta)
         ELSE RunLoopNewAnyRun(ds, cs, j + 1, start, best_len, best_delta)

\* test_new_auto_deltaDB.py lines 108-117
RECURSIVE RunLoopNew(_, _, _, _, _, _)
RunLoopNew(ds, cs, j, start, best_len, best_delta) ==
    IF j > Len(cs) THEN best_delta
    ELSE IF j = Len(cs) \/ cs[j + 1] # cs[start + 1]
         THEN LET seg_len == j - start
              IN IF seg_len > best_len /\ cs[start + 1] > 0
                 THEN RunLoopNew(ds, cs, j + 1, j, seg_len, ds[start + seg_len \div 2 + 1])
                 ELSE RunLoopNew(ds, cs, j + 1, j, best_len, best_delta)
         ELSE RunLoopNew(ds, cs, j + 1, start, best_len, best_delta)

\* best_len = 0; best_delta = deltas[0]; start = 0; for i in range(1, len(counts)+1)
BestDeltaFin(ds, cs) == RunLoopFin(ds, cs, 1, 0, 0, ds[1])
BestDeltaNew(ds, cs) == RunLoopNew(ds, cs, 1, 0, 0, ds[1])

----------------------------------------------------------------------------
(* Zero-result fallback of test_new_auto_deltaDB.py, lines 145-150 *)

\* max(0.01, delta_db/10)
ProbeStop(delta) ==
    LET tenth == Real(delta.a, delta.r, delta.b, ProbeDiv * delta.c)
    IN IF RealGt(tenth, Rat(1, ProbeFloorDen)) THEN tenth ELSE Rat(1, ProbeFloorDen)

\* np.linspace(delta_db, max(0.01, delta_db/10), 10)[j]
ProbeDelta(delta, j) == Linspace(delta, ProbeStop(delta), ProbeSteps, j)

\* FallbackStep without the break
FallbackStepNoBreak(int_db, x, delta, j) ==
    LET probe == ProbeDelta(delta, j)
    IN IF Len(PeakdetPeaks(int_db, probe, x).maxtab) > 0
       THEN [d |-> probe, delta_db |-> probe, break |-> FALSE]
       ELSE [d |-> probe, delta_db |-> delta, break |-> FALSE]

\* FallbackStep that leaves the last probe in delta_db when the loop runs out
FallbackStepKeepsLast(int_db, x, delta, j) ==
    LET probe == ProbeDelta(delta, j)
    IN IF Len(PeakdetPeaks(int_db, probe, x).maxtab) > 0
       THEN [d |-> probe, delta_db |-> probe, break |-> TRUE]
       ELSE [d |-> probe, delta_db |-> IF j = ProbeSteps - 1 THEN probe ELSE delta,
             break |-> FALSE]

\* lines 147-150: iteration j of the loop; delta is delta_db before it
FallbackStep(int_db, x, delta, j) ==
    LET probe == ProbeDelta(delta, j)
    IN IF Len(PeakdetPeaks(int_db, probe, x).maxtab) > 0
       THEN [d |-> probe, delta_db |-> probe, break |-> TRUE]
       ELSE [d |-> probe, delta_db |-> delta, break |-> FALSE]

----------------------------------------------------------------------------
(* PMD / DGD formulas *)

C0 == 299792458

\* delta_t in ps, K * (N / (halves*c0)) * (lmax*lmin)/(lmax - lmin) with the
\* wavelengths in nm: the fraction (KMilli * N * lam) / (c0 * span), kept
\* unevaluated
\* DeltaTPs with the factor 2 in the divisor whatever the convention
DeltaTPsHalved(N, lmin, lmax, halves) ==
    [num |-> KMilli * N, lam |-> lmax * lmin, c0 |-> C0, span |-> 2 * (lmax - lmin)]

DeltaTPs(N, lmin, lmax, halves) ==
    [num |-> KMilli * N, lam |-> lmax * lmin, c0 |-> C0, span |-> halves * (lmax - lmin)]

\* test_no_savgol.py line 120: the divisor is lam_max_m - lam_max_m + 1e-30
GuardedDeltaT(N, lmin, lmax) ==
    [num |-> KMilli * N, lam |-> lmax * lmin, c0 |-> C0, span |-> "1e-30"]

\* delta_t_ps / np.sqrt(fiber_length_km): np.sqrt of a negative number is nan
\* and the division of a float by the numpy float 0.0 is inf, or nan for 0/0;
\* numpy warns and raises nothing
DPmd(dt, L) ==
    [kind |-> IF L[1] < 0 THEN "nan"
              ELSE IF L[1] = 0 THEN (IF dt.num = 0 THEN "nan" ELSE "inf")
              ELSE "number",
     dt |-> dt, sqrt_of |-> L]

\* PmdSection with the divisor patched by an epsilon: always a number
PmdSectionEpsilon(N, lmin, lmax, L, halves) ==
    IF lmax - lmin = 0
    THEN [err |-> "none", delta_t_ps |-> GuardedDeltaT(N, lmin, lmax),
          D_pmd |-> DPmd(GuardedDeltaT(N, lmin, lmax), L)]
    ELSE [err |-> "none", delta_t_ps |-> DeltaTPs(N, lmin, lmax, halves),
          D_pmd |-> DPmd(DeltaTPs(N, lmin, lmax, halves), L)]

\* the PMD / DGD section of a script: Python raises ZeroDivisionError on the
\* float division by lam_max_m - lam_min_m = 0.0
PmdSection(N, lmin, lmax, L, halves) ==
    IF lmax - lmin = 0
    THEN [err |-> "ZeroDivisionError", delta_t_ps |-> None, D_pmd |-> None]
    ELSE [err |-> "none", delta_t_ps |-> DeltaTPs(N, lmin, lmax, halves),
          D_pmd |-> DPmd(DeltaTPs(N, lmin, lmax, halves), L)]

----------------------------------------------------------------------------
(* The scripts *)

settings == <<variant, inten, wl, use_scan, lambda_min, lambda_max, fiber_length_km>>
detector == <<i, det>>
results == <<max_tab, min_tab, N_ext, delta_t_s, delta_t_ps, D_pmd>>
scan == <<deltas, counts>>
fallback == <<d, k>>
\* what the three scripts above never touch
batch == <<valovna, jakost, files, reported>>
apart == <<rows, threshold_db, x_kept, y_kept, peaks_idx, passes, run, first, batch>>

Auto == variant \in {"fin", "new"}

\* the state once the CSV has been read and the settings have been assigned
Init ==
    /\ variant \in {"fin", "new", "nosg"}
    /\ inten \in IF variant = "nosg" THEN Traces(DetLevels, MaxLen) ELSE AutoTraces
    /\ wl = WlGrid(Len(inten))
    /\ use_scan \in IF variant = "nosg" THEN {FALSE} ELSE BOOLEAN
    /\ \E ls \in LambdaSettings : lambda_min = ls[1] /\ lambda_max = ls[2]
    /\ fiber_length_km \in FiberSettings
    /\ delta_db \in IF variant = "nosg" THEN {Rat(x, 1) : x \in DetDeltas} ELSE {None}
    /\ pc = "start"
    /\ noise_sigma = None /\ initial_delta = None
    /\ deltas = None /\ counts = None
    /\ d = None /\ k = 0
    /\ i = 0 /\ det = None
    /\ max_tab = None /\ min_tab = None /\ N_ext = None
    /\ delta_t_s = None /\ delta_t_ps = None /\ D_pmd = None
    /\ err = "none"
    /\ rows = <<>>
    /\ threshold_db = None /\ x_kept = None /\ y_kept = None /\ peaks_idx = None
    /\ passes = <<>>
    /\ run = 1 /\ first = None
    /\ valovna = None /\ jakost = None /\ files = <<>> /\ reported = {}

\* test_fin.py 122-123, test_new_auto_deltaDB.py 136-137
EstimateNoise ==
    /\ pc = "start" /\ Auto
    /\ noise_sigma' = IF variant = "fin" THEN EstimateNoiseDbFin(inten)
                      ELSE EstimateNoiseDbNew(inten)
    /\ initial_delta' = InitialDelta(noise_sigma')
    /\ pc' = "choose"
    /\ UNCHANGED <<settings, apart, scan, delta_db, fallback, detector, results, err>>

\* test_fin.py 125-128, test_new_auto_deltaDB.py 139-142: choose_delta_scan
ChooseDeltaScan ==
    /\ pc = "choose" /\ use_scan
    /\ deltas' = ScanDeltas(ScanMin, ScanMax, ScanSteps)
    /\ counts' = IF variant = "fin" THEN ScanCountsFin(inten, wl, deltas')
                 ELSE ScanCountsNew(inten, wl, deltas')
    /\ delta_db' = IF variant = "fin" THEN BestDeltaFin(deltas', counts')
                   ELSE BestDeltaNew(deltas', counts')
    /\ pc' = IF variant = "fin" THEN "detect" ELSE "fallback_test"
    /\ UNCHANGED <<settings, apart, noise_sigma, initial_delta, fallback, detector, results, err>>

\* the else branch: delta_db = initial_delta
ChooseDeltaNoise ==
    /\ pc = "choose" /\ ~use_scan
    /\ delta_db' = initial_delta
    /\ pc' = IF variant = "fin" THEN "detect" ELSE "fallback_test"
    /\ UNCHANGED <<settings, apart, noise_sigma, initial_delta, scan, fallback, detector, results, err>>

\* FallbackTest that goes on with the probe index an earlier run left
FallbackTestResumes ==
    /\ pc = "fallback_test"
    /\ pc' = IF Len(PeakdetPeaks(inten, delta_db, wl).maxtab) = 0
             THEN "fallback" ELSE "detect"
    /\ k' = k
    /\ UNCHANGED <<settings, apart, noise_sigma, initial_delta, scan, delta_db, d, detector, results, err>>

\* test_new_auto_deltaDB.py 145: if len(peakdet_peaks(inten, delta_db, wl)) == 0
FallbackTest ==
    /\ pc = "fallback_test"
    /\ pc' = IF Len(PeakdetPeaks(inten, delta_db, wl).maxtab) = 0
             THEN "fallback" ELSE "detect"
    /\ k' = 0
    /\ UNCHANGED <<settings, apart, noise_sigma, initial_delta, scan, delta_db, d, detector, results, err>>

\* 147-150: one iteration of  for d in np.linspace(...)
FallbackProbe ==
    /\ pc = "fallback" /\ k < ProbeSteps
    /\ LET r == FallbackStep(inten, wl, delta_db, k)
       IN /\ d' = r.d
          /\ delta_db' = r.delta_db
          /\ pc' = IF r.break THEN "detect" ELSE pc
          /\ k' = k + 1
    /\ UNCHANGED <<settings, apart, noise_sigma, initial_delta, scan, detector, results, err>>

\* the loop ran out of probes without a break
FallbackExhausted ==
    /\ pc = "fallback" /\ k = ProbeSteps
    /\ pc' = "detect"
    /\ UNCHANGED <<settings, apart, noise_sigma, initial_delta, scan, delta_db, fallback, detector, results, err>>

\* test_fin.py 135-136, test_new_auto_deltaDB.py 157-158
Detect ==
    /\ pc = "detect" /\ Auto
    /\ IF variant = "fin"
       THEN /\ max_tab' = Peakdet(inten, delta_db, wl).maxtab
            /\ min_tab' = Peakdet(inten, delta_db, wl).mintab
            /\ N_ext' = Len(max_tab') + Len(min_tab')
       ELSE /\ max_tab' = PeakdetPeaks(inten, delta_db, wl).maxtab
            /\ min_tab' = min_tab
            /\ N_ext' = Len(max_tab')
    /\ pc' = "pmd"
    /\ UNCHANGED <<settings, apart, noise_sigma, initial_delta, scan, delta_db, fallback, detector,
                   delta_t_s, delta_t_ps, D_pmd, err>>

\* test_no_savgol.py 109 and 48-65: the call of peakdet up to its loop
PeakdetBegin ==
    /\ pc = "start" /\ variant = "nosg"
    /\ IF PeakdetExit(inten, delta_db, wl) # "none"
       THEN /\ err' = PeakdetExit(inten, delta_db, wl)
            /\ pc' = "error"
            /\ UNCHANGED detector
       ELSE /\ det' = PeakdetInit
            /\ i' = 1
            /\ pc' = "scan"
            /\ err' = err
    /\ UNCHANGED <<settings, apart, noise_sigma, initial_delta, scan, delta_db, fallback, results>>

\* test_no_savgol.py 67-87: one iteration of the loop
PeakdetSample ==
    /\ pc = "scan" /\ i <= Len(inten)
    /\ det' = PeakdetStep(det, inten[i], wl[i], delta_db)
    /\ i' = i + 1
    /\ UNCHANGED <<settings, apart, pc, noise_sigma, initial_delta, scan, delta_db, fallback, results, err>>

\* test_no_savgol.py 89 and 109-110: the return, with no commit of the run in progress
PeakdetReturn ==
    /\ pc = "scan" /\ i > Len(inten)
    /\ max_tab' = PeakdetResult(det).maxtab
    /\ min_tab' = PeakdetResult(det).mintab
    /\ N_ext' = Len(max_tab') + Len(min_tab')
    /\ pc' = "guard"
    /\ UNCHANGED <<settings, apart, noise_sigma, initial_delta, scan, delta_db, fallback, detector,
                   delta_t_s, delta_t_ps, D_pmd, err>>

\* test_no_savgol.py 120: the line with the "tiny guard"
GuardLine ==
    /\ pc = "guard"
    /\ delta_t_s' = GuardedDeltaT(N_ext, lambda_min, lambda_max)
    /\ pc' = "pmd"
    /\ UNCHANGED <<settings, apart, noise_sigma, initial_delta, scan, delta_db, fallback, detector,
                   max_tab, min_tab, N_ext, delta_t_ps, D_pmd, err>>

\* test_fin.py 142-146, test_new_auto_deltaDB.py 164-173, test_no_savgol.py 122-128,
\* throwaway.py 125-134
ComputePMD ==
    /\ pc = "pmd"
    /\ LET r == PmdSection(N_ext, lambda_min, lambda_max, fiber_length_km,
                           IF variant \in {"new", "thr"} THEN 1 ELSE 2)
       IN /\ err' = r.err
          /\ pc' = IF r.err = "none" THEN "done" ELSE "error"
          /\ delta_t_ps' = r.delta_t_ps
          /\ D_pmd' = r.D_pmd
    /\ UNCHANGED <<settings, apart, noise_sigma, initial_delta, scan, delta_db, fallback, detector,
                   max_tab, min_tab, N_ext, delta_t_s>>

Next ==
    \/ EstimateNoise
    \/ ChooseDeltaScan
    \/ ChooseDeltaNoise
    \/ FallbackTest
    \/ FallbackProbe
    \/ FallbackExhausted
    \/ Detect
    \/ PeakdetBegin
    \/ PeakdetSample
    \/ PeakdetReturn
    \/ GuardLine
    \/ ComputePMD

Spec == Init /\ [][Next]_vars

\* nothing has been computed yet
NothingComputed ==
    /\ noise_sigma = None /\ initial_delta = None
    /\ deltas = None /\ counts = None
    /\ d = None /\ k = 0
    /\ i = 0 /\ det = None
    /\ max_tab = None /\ min_tab = None /\ N_ext = None
    /\ delta_t_s = None /\ delta_t_ps = None /\ D_pmd = None
    /\ err = "none"

\* the three scripts on short traces, with fiber_length_km set to any value
InitSettings ==
    /\ variant \in {"fin", "new", "nosg"}
    /\ inten \in Traces(LowLevels, ShortLen)
    /\ wl = WlGrid(Len(inten))
    /\ use_scan \in IF variant = "nosg" THEN {FALSE} ELSE BOOLEAN
    /\ \E ls \in LambdaSettings : lambda_min = ls[1] /\ lambda_max = ls[2]
    /\ fiber_length_km \in AnyFiberSettings
    /\ delta_db \in IF variant = "nosg" THEN {Rat(v, 1) : v \in DetDeltas} ELSE {None}
    /\ pc = "start"
    /\ NothingComputed
    /\ rows = <<>>
    /\ threshold_db = None /\ x_kept = None /\ y_kept = None /\ peaks_idx = None
    /\ passes = <<>>
    /\ run = 1 /\ first = None
    /\ valovna = None /\ jakost = None /\ files = <<>> /\ reported = {}

SpecSettings == InitSettings /\ [][Next]_vars

----------------------------------------------------------------------------
(* A script run twice on the same CSV with the same settings *)

InitAgain ==
    /\ variant \in {"fin", "new", "nosg"}
    /\ inten \in Traces(LowLevels, LongLen)
    /\ wl = WlGrid(Len(inten))
    /\ use_scan \in IF variant = "nosg" THEN {FALSE} ELSE BOOLEAN
    /\ \E ls \in LambdaSettings : lambda_min = ls[1] /\ lambda_max = ls[2]
    /\ fiber_length_km \in FiberSettings
    /\ delta_db \in IF variant = "nosg" THEN {Rat(v, 1) : v \in DetDeltas} ELSE {None}
    /\ pc = "start"
    /\ NothingComputed
    /\ rows = <<>>
    /\ threshold_db = None /\ x_kept = None /\ y_kept = None /\ peaks_idx = None
    /\ passes = <<>>
    /\ run = 1 /\ first = None
    /\ valovna = None /\ jakost = None /\ files = <<>> /\ reported = {}

\* what a run ends with: the printed results, or the error
Outcome ==
    [n_extrema |-> N_ext, delta_used |-> delta_db, delta_t |-> delta_t_ps,
     D_PMD |-> D_pmd, err |-> err, pc |-> pc]

\* the script is started again; every name the first run bound keeps its
\* value until the second run assigns it
Rerun ==
    /\ pc \in {"done", "error"} /\ run = 1
    /\ first' = Outcome
    /\ run' = 2
    /\ pc' = "start"
    /\ err' = "none"
    /\ UNCHANGED <<settings, rows, threshold_db, x_kept, y_kept, peaks_idx, passes, batch,
                   noise_sigma, initial_delta, scan, delta_db, fallback, detector, results>>

NextAgain ==
    \/ Next
    \/ Rerun

SpecAgain == InitAgain /\ [][NextAgain]_vars

----------------------------------------------------------------------------
(* Read CSV: test_fin.py 108-117, test_new_auto_deltaDB.py 123-131 *)

\* a field of a row is its text: text that float() parses, with the value, or
\* text that it does not
Numeral(v) == [numeric |-> TRUE, val |-> v]
Junk == [numeric |-> FALSE, val |-> 0]
Fields == {Numeral(1580), Numeral(-400), Junk}
\* rows as csv.reader yields them: no field (a blank line), one field, two
CsvRows == UNION {[1..n -> Fields] : n \in 0..2}
CsvFiles == UNION {[1..n -> CsvRows] : n \in 0..MaxRows}

\* float(row[j]), j from 0: IndexError when the row has no such field,
\* ValueError when its text is no number
Float(row, j) ==
    IF Len(row) < j + 1 THEN [err |-> "IndexError", val |-> 0]
    ELSE IF ~row[j + 1].numeric THEN [err |-> "ValueError", val |-> 0]
    ELSE [err |-> "none", val |-> row[j + 1].val]

\* the body of  for row in reader:  the wavelength is appended before the
\* intensity is parsed
ReadBody(ws, ints, row) ==
    IF Float(row, 0).err # "none"
    THEN [wl |-> ws, inten |-> ints, err |-> Float(row, 0).err]
    ELSE IF Float(row, 1).err # "none"
    THEN [wl |-> Append(ws, Float(row, 0).val), inten |-> ints, err |-> Float(row, 1).err]
    ELSE [wl |-> Append(ws, Float(row, 0).val),
          inten |-> Append(ints, Float(row, 1).val), err |-> "none"]

\* the header has been skipped; no row has been read
InitRead ==
    /\ variant \in {"fin", "new"}
    /\ rows \in CsvFiles
    /\ wl = <<>> /\ inten = <<>>
    /\ use_scan \in BOOLEAN
    /\ lambda_min = 1580 /\ lambda_max = 1710
    /\ fiber_length_km \in FiberSettings
    /\ delta_db = None
    /\ pc = "read"
    /\ NothingComputed
    /\ threshold_db = None /\ x_kept = None /\ y_kept = None /\ peaks_idx = None
    /\ passes = <<>>
    /\ run = 1 /\ first = None
    /\ valovna = None /\ jakost = None /\ files = <<>> /\ reported = {}

\* one iteration of the loop over the rows; an exception ends the script
ReadRow ==
    /\ pc = "read" /\ rows # <<>>
    /\ LET r == ReadBody(wl, inten, Head(rows))
       IN /\ wl' = r.wl
          /\ inten' = r.inten
          /\ err' = r.err
          /\ pc' = IF r.err = "none" THEN pc ELSE "error"
          /\ rows' = IF r.err = "none" THEN Tail(rows) ELSE rows
    /\ UNCHANGED <<variant, use_scan, lambda_min, lambda_max, fiber_length_km,
                   threshold_db, x_kept, y_kept, peaks_idx, passes, run, first, batch,
                   noise_sigma, initial_delta, scan, delta_db, fallback, detector, results>>

\* the reader is exhausted: wl = np.array(wl); inten = np.array(inten)
ReadEnd ==
    /\ pc = "read" /\ rows = <<>>
    /\ pc' = "start"
    /\ UNCHANGED <<settings, apart, noise_sigma, initial_delta, scan, delta_db, fallback,
                   detector, results, err>>

NextRead ==
    \/ ReadRow
    \/ ReadEnd

SpecRead == InitRead /\ [][NextRead]_vars

----------------------------------------------------------------------------
(* Measurement loops: OSA_polarizer_works_trace_A_only.py 99-159,          *)
(* osa_and_polarizer.py 81-125                                             *)

\* what the OSA answers to WDATA or LDATA: nothing before the timeout, or a
\* line of comma-separated fields
OsaFields == {Numeral(1580), Junk}
OsaResponses ==
    {[timeout |-> TRUE, fields |-> <<>>]} \cup
    {[timeout |-> FALSE, fields |-> f] :
        f \in UNION {[1..n -> OsaFields] : n \in 1..MaxFields}}

AllNumeric(fs) == \A j \in 1..Len(fs) : fs[j].numeric
Floats(fs) == [j \in 1..Len(fs) |-> fs[j].val]

\* OSA_polarizer_works_trace_A_only.py 99-111: read_large_data; an exception of
\* the read, or of the second conversion, is printed and [] is returned
ReadLargeData(resp) ==
    IF resp.timeout THEN <<>>
    ELSE IF AllNumeric(resp.fields) THEN Floats(resp.fields)
    ELSE IF AllNumeric(Tail(resp.fields)) THEN Floats(Tail(resp.fields))
    ELSE <<>>

\* osa_and_polarizer.py 99, 102: osa.query_ascii_values raises on a timeout
\* and on a field that is no number
QueryRaises(resp) == resp.timeout \/ ~AllNumeric(resp.fields)

\* zip(a, b): pairs up to the shorter of the two
Zip(a, b) ==
    [j \in 1..(IF Len(a) < Len(b) THEN Len(a) ELSE Len(b)) |-> <<a[j], b[j]>>]

\* data_rows: zip(valovna[:min_len], jakost[:min_len]) in the trace-A script,
\* zip(valovna[1:], jakost[1:]) in osa_and_polarizer.py
DataRows(script, ws, js) ==
    IF script = "osa_A" THEN Zip(ws, js) ELSE Zip(Tail(ws), Tail(js))

InitBatch ==
    /\ variant \in {"osa_A", "osa_pol"}
    /\ inten = <<>> /\ wl = <<>>
    /\ use_scan = FALSE
    /\ lambda_min = 1580 /\ lambda_max = 1710
    /\ fiber_length_km \in FiberSettings
    /\ pc = "loop"
    /\ noise_sigma = None /\ initial_delta = None
    /\ deltas = None /\ counts = None /\ delta_db = None
    /\ d = None /\ k = 0
    /\ i = 1 /\ det = None
    /\ max_tab = None /\ min_tab = None /\ N_ext = None
    /\ delta_t_s = None /\ delta_t_ps = None /\ D_pmd = None
    /\ err = "none"
    /\ rows = <<>>
    /\ threshold_db = None /\ x_kept = None /\ y_kept = None /\ peaks_idx = None
    /\ passes = <<>>
    /\ run = 1 /\ first = None
    /\ valovna = <<>> /\ jakost = <<>> /\ files = <<>> /\ reported = {}

others == <<settings, rows, threshold_db, x_kept, y_kept, peaks_idx, passes, run, first,
            noise_sigma, initial_delta, scan, delta_db, fallback, det, results>>

\* the head of the loop up to the sweep: scramble_polarization catches its
\* own exceptions; osa.write("SGL") stands outside every try
StartMeasurement ==
    /\ pc = "loop" /\ i <= NMeasurements
    /\ \E sweep \in {"ok", "VisaIOError"} :
          /\ pc' = IF sweep = "ok" THEN "read" ELSE "crashed"
          /\ err' = IF sweep = "ok" THEN err ELSE sweep
    /\ UNCHANGED <<others, i, batch>>

\* OSA_polarizer_works_trace_A_only.py 131-137
ReadTraceA ==
    /\ pc = "read" /\ variant = "osa_A"
    /\ \E w \in OsaResponses, l \in OsaResponses :
          /\ valovna' = ReadLargeData(w)
          /\ jakost' = ReadLargeData(l)
    /\ IF valovna' = <<>> \/ jakost' = <<>>
       THEN /\ reported' = reported \cup {i}
            /\ i' = i + 1
            /\ pc' = "loop"
       ELSE /\ pc' = "save"
            /\ UNCHANGED <<reported, i>>
    /\ UNCHANGED <<others, files, err>>

\* osa_and_polarizer.py 97-102 and 118-119
ReadTrace ==
    /\ pc = "read" /\ variant = "osa_pol"
    /\ \E w \in OsaResponses, l \in OsaResponses :
          IF QueryRaises(w)
          THEN /\ reported' = reported \cup {i}
               /\ i' = i + 1 /\ pc' = "loop"
               /\ UNCHANGED <<valovna, jakost>>
          ELSE IF QueryRaises(l)
          THEN /\ valovna' = Floats(w.fields)
               /\ reported' = reported \cup {i}
               /\ i' = i + 1 /\ pc' = "loop"
               /\ UNCHANGED jakost
          ELSE /\ valovna' = Floats(w.fields)
               /\ jakost' = Floats(l.fields)
               /\ pc' = "save"
               /\ UNCHANGED <<reported, i>>
    /\ UNCHANGED <<others, files, err>>

\* 139-153 and 105-119: the file is written, or open() raises and the
\* exception is printed
SaveTrace ==
    /\ pc = "save"
    /\ \E disk \in {"ok", "OSError"} :
          IF disk = "ok"
          THEN /\ files' = (i :> DataRows(variant, valovna, jakost)) @@ files
               /\ UNCHANGED reported
          ELSE /\ reported' = reported \cup {i}
               /\ UNCHANGED files
    /\ i' = i + 1
    /\ pc' = "loop"
    /\ UNCHANGED <<others, valovna, jakost, err>>

\* the loop is over: ser.close(); osa.close()
Cleanup ==
    /\ pc = "loop" /\ i > NMeasurements
    /\ pc' = "finished"
    /\ UNCHANGED <<others, i, batch, err>>

NextBatch ==
    \/ StartMeasurement
    \/ ReadTraceA
    \/ ReadTrace
    \/ SaveTrace
    \/ Cleanup

SpecBatch == InitBatch /\ [][NextBatch]_vars

\* the interpreter runs the script on
SpecBatchFair == SpecBatch /\ WF_vars(NextBatch)

----------------------------------------------------------------------------
(* throwaway.py: threshold mask, then peaks only *)

InitMask ==
    /\ variant = "thr"
    /\ inten \in Traces(MaskLevels, MaskLen)
    /\ wl = WlGrid(Len(inten))
    /\ threshold_db \in Thresholds
    /\ delta_db \in {Rat(v, 1) : v \in ThrDeltas}
    /\ use_scan = FALSE
    /\ lambda_min = 1580 /\ lambda_max = 1650
    /\ fiber_length_km \in FiberSettings
    /\ pc = "start"
    /\ NothingComputed
    /\ rows = <<>>
    /\ x_kept = None /\ y_kept = None /\ peaks_idx = None
    /\ passes = <<>>
    /\ run = 1 /\ first = None
    /\ valovna = None /\ jakost = None /\ files = <<>> /\ reported = {}

\* lines 104-106
ApplyMask ==
    /\ pc = "start" /\ variant = "thr"
    /\ x_kept' = Kept(wl, ThresholdMask(inten, threshold_db), 1)
    /\ y_kept' = Kept(inten, ThresholdMask(inten, threshold_db), 1)
    /\ pc' = "detect"
    /\ UNCHANGED <<settings, rows, threshold_db, peaks_idx, passes, run, first, batch,
                   noise_sigma, initial_delta, scan, delta_db, fallback, detector,
                   results, err>>

\* lines 111-114: Billauer hysteresis on the masked trace
DetectHysteresis ==
    /\ pc = "detect" /\ variant = "thr" /\ Positive(delta_db)
    /\ max_tab' = ThrPeakdetPeaks(y_kept, delta_db, x_kept).maxtab
    /\ N_ext' = Len(max_tab')
    /\ pc' = "pmd"
    /\ UNCHANGED <<settings, apart, noise_sigma, initial_delta, scan, delta_db, fallback,
                   detector, min_tab, delta_t_s, delta_t_ps, D_pmd, err>>

\* lines 115-118: neighbour comparison on the masked trace
DetectNeighbours ==
    /\ pc = "detect" /\ variant = "thr" /\ ~Positive(delta_db)
    /\ peaks_idx' = FindPeaksOnly(x_kept, y_kept)
    /\ N_ext' = Len(peaks_idx')
    /\ pc' = "pmd"
    /\ UNCHANGED <<settings, rows, threshold_db, x_kept, y_kept, passes, run, first, batch,
                   noise_sigma, initial_delta, scan, delta_db, fallback, detector,
                   max_tab, min_tab, delta_t_s, delta_t_ps, D_pmd, err>>

NextMask ==
    \/ ApplyMask
    \/ DetectHysteresis
    \/ DetectNeighbours
    \/ ComputePMD

SpecMask == InitMask /\ [][NextMask]_vars

----------------------------------------------------------------------------
(* choose_delta_scan with its detector passes in any order *)

\* the locals of a call of the detector of script v, at its first sample
PassBegin(v) ==
    [i |-> 1, s |-> IF v = "fin" THEN PeakdetInit ELSE PeakdetPeaksInit,
     returned |-> FALSE]

\* AdvancePass with the locals kept in one place for all the passes
AdvancePassShared(ps, j, v, xs, ds, script) ==
    [ps EXCEPT ![j] =
        [i |-> @.i + 1,
         s |-> IF script = "fin" THEN PeakdetStep(ps[1].s, v[@.i], xs[@.i], ds[j])
               ELSE PeakdetPeaksStep(ps[1].s, v[@.i], xs[@.i], ds[j]),
         returned |-> FALSE]]

\* one iteration of the loop of pass j (test_fin.py 56-71,
\* test_new_auto_deltaDB.py 74-88), on the locals of that call
AdvancePass(ps, j, v, xs, ds, script) ==
    [ps EXCEPT ![j] =
        [i |-> @.i + 1,
         s |-> IF script = "fin" THEN PeakdetStep(@.s, v[@.i], xs[@.i], ds[j])
               ELSE PeakdetPeaksStep(@.s, v[@.i], xs[@.i], ds[j]),
         returned |-> FALSE]]

\* the count the scan takes from a returned pass
PassCount(p, script) ==
    IF script = "fin"
    THEN Len(PeakdetResult(p.s).maxtab) + Len(PeakdetResult(p.s).mintab)
    ELSE Len(PeakdetPeaksResult(p.s).maxtab)

\* choose_delta_scan has made its candidates; no pass has run
InitPasses ==
    /\ variant \in {"fin", "new"}
    /\ inten \in Traces(LowLevels, ShortLen)
    /\ wl = WlGrid(Len(inten))
    /\ use_scan = TRUE
    /\ lambda_min = 1580 /\ lambda_max = 1710
    /\ fiber_length_km \in FiberSettings
    /\ pc = "passes"
    /\ noise_sigma = None /\ initial_delta = None
    /\ deltas = ScanDeltas(ScanMin, ScanMax, PassSteps)
    /\ counts = [j \in 1..PassSteps |-> None]
    /\ passes = [j \in 1..PassSteps |-> PassBegin(variant)]
    /\ delta_db = None
    /\ d = None /\ k = 0
    /\ i = 0 /\ det = None
    /\ max_tab = None /\ min_tab = None /\ N_ext = None
    /\ delta_t_s = None /\ delta_t_ps = None /\ D_pmd = None
    /\ err = "none"
    /\ rows = <<>>
    /\ threshold_db = None /\ x_kept = None /\ y_kept = None /\ peaks_idx = None
    /\ run = 1 /\ first = None
    /\ valovna = None /\ jakost = None /\ files = <<>> /\ reported = {}

\* some pass handles its next sample
PassSample ==
    /\ pc = "passes"
    /\ \E j \in 1..Len(passes) :
          /\ passes[j].i <= Len(inten)
          /\ passes' = AdvancePass(passes, j, inten, wl, deltas, variant)
    /\ UNCHANGED <<settings, rows, threshold_db, x_kept, y_kept, peaks_idx, run, first, batch,
                   pc, noise_sigma, initial_delta, scan, delta_db, fallback, detector,
                   results, err>>

\* some pass returns and its count enters the table at its candidate
PassReturn ==
    /\ pc = "passes"
    /\ \E j \in 1..Len(passes) :
          /\ passes[j].i > Len(inten) /\ ~passes[j].returned
          /\ counts' = [counts EXCEPT ![j] = PassCount(passes[j], variant)]
          /\ passes' = [passes EXCEPT ![j].returned = TRUE]
    /\ UNCHANGED <<settings, rows, threshold_db, x_kept, y_kept, peaks_idx, run, first, batch,
                   pc, noise_sigma, initial_delta, deltas, delta_db, fallback, detector,
                   results, err>>

\* test_fin.py 94-103, test_new_auto_deltaDB.py 108-118: the selection, on the
\* completed table
SelectPlateau ==
    /\ pc = "passes"
    /\ \A j \in 1..Len(passes) : passes[j].returned
    /\ delta_db' = IF variant = "fin" THEN BestDeltaFin(deltas, counts)
                   ELSE BestDeltaNew(deltas, counts)
    /\ pc' = "selected"
    /\ UNCHANGED <<settings, apart, noise_sigma, initial_delta, scan, fallback, detector,
                   results, err>>

NextPasses ==
    \/ PassSample
    \/ PassReturn
    \/ SelectPlateau

SpecPasses == InitPasses /\ [][NextPasses]_vars

----------------------------------------------------------------------------
(* The detectors called on their own *)

\* a caller holds the arguments v = inten, delta = delta_db, x = wl of one call
\* of the detector of script variant
InitCall ==
    /\ variant \in {"fin", "new", "thr"}
    /\ inten \in Traces(DetLevels, MaxLen)
    /\ wl = WlGrid(Len(inten))
    /\ delta_db \in {Rat(v, 1) : v \in CallDeltas}
    /\ use_scan = FALSE
    /\ lambda_min = 1580 /\ lambda_max = 1710
    /\ fiber_length_km \in FiberSettings
    /\ pc = "call"
    /\ NothingComputed
    /\ rows = <<>>
    /\ threshold_db = None /\ x_kept = None /\ y_kept = None /\ peaks_idx = None
    /\ passes = <<>>
    /\ run = 1 /\ first = None
    /\ valovna = None /\ jakost = None /\ files = <<>> /\ reported = {}

\* test_fin.py 42-72: max_tab, min_tab = peakdet(v, delta, x)
CallPeakdet ==
    /\ pc = "call" /\ variant = "fin"
    /\ LET r == Peakdet(inten, delta_db, wl)
       IN IF r.exit # "none"
          THEN /\ err' = r.exit /\ pc' = "error"
               /\ UNCHANGED <<max_tab, min_tab>>
          ELSE /\ max_tab' = r.maxtab /\ min_tab' = r.mintab
               /\ pc' = "returned" /\ err' = err
    /\ UNCHANGED <<settings, apart, noise_sigma, initial_delta, scan, delta_db, fallback,
                   detector, N_ext, delta_t_s, delta_t_ps, D_pmd>>

\* test_new_auto_deltaDB.py 59-89: max_tab = peakdet_peaks(v, delta, x)
CallPeakdetPeaks ==
    /\ pc = "call" /\ variant = "new"
    /\ LET r == PeakdetPeaks(inten, delta_db, wl)
       IN IF r.exit # "none"
          THEN /\ err' = r.exit /\ pc' = "error"
               /\ UNCHANGED max_tab
          ELSE /\ max_tab' = r.maxtab
               /\ pc' = "returned" /\ err' = err
    /\ UNCHANGED <<settings, apart, noise_sigma, initial_delta, scan, delta_db, fallback,
                   detector, min_tab, N_ext, delta_t_s, delta_t_ps, D_pmd>>

\* throwaway.py 60-86: max_tab = peakdet_peaks(v, delta, x)
CallThrPeakdetPeaks ==
    /\ pc = "call" /\ variant = "thr"
    /\ max_tab' = ThrPeakdetPeaks(inten, delta_db, wl).maxtab
    /\ pc' = "returned"
    /\ UNCHANGED <<settings, apart, noise_sigma, initial_delta, scan, delta_db, fallback,
                   detector, min_tab, N_ext, delta_t_s, delta_t_ps, D_pmd, err>>

NextCall ==
    \/ CallPeakdet
    \/ CallPeakdetPeaks
    \/ CallThrPeakdetPeaks

SpecCall == InitCall /\ [][NextCall]_vars

----------------------------------------------------------------------------
(* Properties *)

PosOf(e) == e[1].val
ValOf(e) == e[2].val
Committed(e) == ~e[1].nan /\ e[2].inf = 0

\* x >= y and x = y on the reals
RealGe(x, y) == ~RealGt(y, x)
RealEq(x, y) == ~RealGt(x, y) /\ ~RealGt(y, x)

\* the final detection of the script has returned
Detected == pc \in {"guard", "pmd", "done"} \/ (pc = "error" /\ err = "ZeroDivisionError")
BothMode == variant \in {"fin", "nosg"}

\* maxima mt and minima nt, read in the order of their positions, alternate
\* max, min, max, ... and neighbours differ by at least delta
Alternating(mt, nt, delta) ==
    /\ Len(nt) <= Len(mt) /\ Len(mt) <= Len(nt) + 1
    /\ \A j \in 1..Len(mt) : Committed(mt[j])
    /\ \A j \in 1..Len(nt) : Committed(nt[j])
    /\ \A j \in 1..Len(nt) :
          /\ PosOf(mt[j]) < PosOf(nt[j])
          /\ RealGe(Rat(ValOf(mt[j]) - ValOf(nt[j]), 1), delta)
    /\ \A j \in 1..(Len(mt) - 1) :
          /\ PosOf(nt[j]) < PosOf(mt[j + 1])
          /\ RealGe(Rat(ValOf(mt[j + 1]) - ValOf(nt[j]), 1), delta)

\* C1: hysteresis invariant of peakdet, at every step of the scan and in what
\* it returns: every committed maximum is followed by a committed minimum at
\* least delta below it, every committed minimum by a committed maximum at
\* least delta above it, and the committed extrema alternate in kind.
C1_Hysteresis ==
    /\ pc = "scan" => Alternating(det.maxtab, det.mintab, delta_db)
    /\ (Detected /\ BothMode) => Alternating(max_tab, min_tab, delta_db)

C1_Witness ==
    /\ pc = "done" /\ BothMode
    /\ Len(max_tab) >= 2 /\ Len(min_tab) >= 1

\* C2: for a fixed trace the extrema count never grows with delta: over the
\* ascending candidates of the scan the counts are non-increasing
\* (len(maxima)+len(minima) in test_fin.py, len(maxima) in
\* test_new_auto_deltaDB.py).
C2_MonotoneDelta ==
    (Auto /\ use_scan /\ pc # "start" /\ pc # "choose") =>
        \A j \in 1..Len(counts), l \in 1..Len(counts) :
            (j < l /\ RealGt(deltas[l], deltas[j])) => counts[l] <= counts[j]

C2_Witness ==
    /\ Auto /\ use_scan /\ pc = "done"
    /\ \E j \in 1..Len(counts), l \in 1..Len(counts) :
          j < l /\ counts[1] > counts[j] /\ counts[j] > counts[l]

\* some sample after position p lies more than delta below (above) val
FellAfter(p, val, delta) ==
    \E j \in 1..Len(inten) : wl[j] > p /\ Exceeds(val - inten[j], delta)
RoseAfter(p, val, delta) ==
    \E j \in 1..Len(inten) : wl[j] > p /\ Exceeds(inten[j] - val, delta)

Scenario1 == <<-400, -200, -400, -200, -400>>

\* C3: terminal rule: nothing is committed when the scan ends, so every
\* returned maximum (minimum) has a later sample more than delta below (above)
\* it; the trace -20,-10,-20,-10,-20 dB at 1580..1584 nm with delta 5 dB
\* returns maxima (1581,-10), (1583,-10) and minima (1582,-20).
C3_TerminalRule ==
    Detected =>
        /\ \A j \in 1..Len(max_tab) :
              FellAfter(PosOf(max_tab[j]), ValOf(max_tab[j]), delta_db)
        /\ BothMode =>
              \A j \in 1..Len(min_tab) :
                  RoseAfter(PosOf(min_tab[j]), ValOf(min_tab[j]), delta_db)
        /\ (variant = "nosg" /\ inten = Scenario1 /\ delta_db = Rat(100, 1)) =>
              /\ max_tab = <<<<At(1581), Num(-200)>>, <<At(1583), Num(-200)>>>>
              /\ min_tab = <<<<At(1582), Num(-400)>>>>

C3_Witness ==
    /\ pc = "done" /\ variant = "nosg"
    /\ inten = Scenario1 /\ delta_db = Rat(100, 1)
    /\ Len(max_tab) = 2 /\ Len(min_tab) = 1

----------------------------------------------------------------------------
(* Plateau selection *)

\* choose_delta_scan has just returned
JustChosen ==
    /\ use_scan
    /\ \/ variant = "fin" /\ pc = "detect"
       \/ variant = "new" /\ pc = "fallback_test"

\* <<s, e>> is a maximal run of equal counts, indices from 1
IsRun(cs, s, e) ==
    /\ s <= e
    /\ \A j \in s..e : cs[j] = cs[s]
    /\ s = 1 \/ cs[s - 1] # cs[s]
    /\ e = Len(cs) \/ cs[e + 1] # cs[s]
Runs(cs) == {r \in (1..Len(cs)) \X (1..Len(cs)) : IsRun(cs, r[1], r[2])}
RunLen(r) == r[2] - r[1] + 1
Mid(r) == r[1] + RunLen(r) \div 2
NonZeroRuns(cs) == {r \in Runs(cs) : cs[r[1]] > 0}
LongestNonZero(cs) ==
    {r \in NonZeroRuns(cs) : \A q \in NonZeroRuns(cs) : RunLen(q) <= RunLen(r)}
\* the runs of non-zero count that are as long as the longest run of the table
TiedLongest(cs) ==
    {r \in NonZeroRuns(cs) : \A q \in Runs(cs) : RunLen(q) <= RunLen(r)}
First(rs) == CHOOSE r \in rs : \A q \in rs : r[1] <= q[1]

\* C4: the scan returns the delta at run_start + floor(run_length/2) of the
\* longest run of candidates with identical non-zero count; a run of zero
\* count is never selected.
C4_PlateauSelection ==
    (JustChosen /\ NonZeroRuns(counts) # {}) =>
        \E r \in LongestNonZero(counts) : delta_db = deltas[Mid(r)]

\* C4 in test_new_auto_deltaDB.py, where the loop tests counts[start] > 0
C4_PlateauSelectionNew ==
    (JustChosen /\ variant = "new" /\ NonZeroRuns(counts) # {}) =>
        \E r \in LongestNonZero(counts) : delta_db = deltas[Mid(r)]

C6_NoPlateauFallsBack ==
    (JustChosen /\ variant = "new" /\ \A j \in 1..Len(counts) : counts[j] = 0) =>
        RealEq(delta_db, initial_delta)

----------------------------------------------------------------------------
(* Zero-result fallback *)

RealScale(p, q, x) == Real(p * x.a, x.r, p * x.b, q * x.c)
RealAdd(x, y) ==
    Real(x.a * y.c + y.a * x.c, RadOf(x, y), x.b * y.c + y.b * x.c, x.c * y.c)

\* max(0.01 dB, chosen/10) and the j-th of 10 evenly spaced values from chosen
\* down to it, j = 0 .. 9
LowestProbe(chosen) ==
    IF RealGt(Rat(1, 5), RealScale(1, 10, chosen)) THEN Rat(1, 5)
    ELSE RealScale(1, 10, chosen)
EvenProbe(chosen, j) ==
    RealAdd(RealScale(9 - j, 9, chosen), RealScale(j, 9, LowestProbe(chosen)))

PeaksAt(x) == Len(PeakdetPeaks(inten, x, wl).maxtab)

\* the delta chosen by the policy, before any fallback
Chosen == IF use_scan THEN BestDeltaNew(deltas, counts) ELSE initial_delta
AfterFallback == variant = "new" /\ pc \in {"detect", "pmd", "done", "error"}
Succeeding(chosen) == {j \in 0..9 : PeaksAt(EvenProbe(chosen, j)) > 0}
Least(S) == CHOOSE j \in S : \A l \in S : j <= l

\* C7: when the chosen delta yields no peak, the probes are the 10 evenly
\* spaced values from the chosen delta down to max(0.01 dB, chosen/10), taken
\* in that order; each lies between the two ends; the first probe with a peak
\* is adopted and none after it.
C7_Fallback ==
    /\ (variant = "new" /\ pc = "fallback") => PeaksAt(delta_db) = 0 /\ k <= 10
    /\ (variant = "new" /\ pc = "fallback" /\ k >= 1) =>
          /\ RealEq(d, EvenProbe(delta_db, k - 1))
          /\ RealGe(delta_db, d) /\ RealGe(d, LowestProbe(delta_db))
          /\ \A j \in 0..(k - 1) : PeaksAt(EvenProbe(delta_db, j)) = 0
    /\ AfterFallback =>
          /\ PeaksAt(Chosen) > 0 => RealEq(delta_db, Chosen)
          /\ (PeaksAt(Chosen) = 0 /\ Succeeding(Chosen) # {}) =>
                /\ RealEq(delta_db, EvenProbe(Chosen, Least(Succeeding(Chosen))))
                /\ RealEq(d, delta_db)
                /\ k = Least(Succeeding(Chosen)) + 1

C7_Witness ==
    /\ AfterFallback /\ pc = "done"
    /\ PeaksAt(Chosen) = 0
    /\ RealGt(Chosen, delta_db)
    /\ N_ext >= 1

\* C8: when no probe yields a peak the script does not fail: delta_db is the
\* originally chosen delta and the result is N_peaks = 0 with delta_t = 0.
C8_Exhausted ==
    (AfterFallback /\ PeaksAt(Chosen) = 0 /\ Succeeding(Chosen) = {}) =>
        /\ RealEq(delta_db, Chosen)
        /\ pc = "error" => (err = "ZeroDivisionError" /\ lambda_min = lambda_max)
        /\ pc \in {"pmd", "done"} => N_ext = 0
        /\ pc = "done" => (err = "none" /\ delta_t_ps.num = 0 /\ delta_t_ps.span # 0)

C8_Witness ==
    /\ AfterFallback /\ pc = "done"
    /\ k = 10 /\ N_ext = 0
    /\ \E j \in 1..(Len(inten) - 1) : inten[j] # inten[j + 1]

----------------------------------------------------------------------------
(* Zero count and zero span *)

Flat(v) == \A j \in 1..Len(v) : v[j] = v[1]

\* C9: a flat trace yields no extremum at any delta (n_count = 0), and the
\* PMD section then returns delta_t = 0, in both counting conventions.
C9_FlatTrace ==
    Flat(inten) =>
        /\ pc = "scan" => (det.maxtab = <<>> /\ det.mintab = <<>>)
        /\ (Auto /\ use_scan /\ pc \notin {"start", "choose"}) =>
              \A j \in 1..Len(counts) : counts[j] = 0
        /\ (variant = "new" /\ pc = "fallback" /\ k >= 1) => PeaksAt(d) = 0
        /\ Detected => N_ext = 0
        /\ pc = "done" => (err = "none" /\ delta_t_ps.num = 0)

C9_Witness ==
    /\ Flat(inten) /\ Len(inten) >= 3
    /\ pc = "done" /\ variant = "fin" /\ delta_t_ps.num = 0

----------------------------------------------------------------------------
(* Settings out of range *)

\* C11: with fiber_length_km <= 0 the PMD computation ends in an error and
\* yields no D_PMD value, neither infinity, nor NaN, nor a number.
C11_FiberLengthGuard ==
    (fiber_length_km[1] <= 0 /\ pc \in {"done", "error"}) =>
        /\ pc = "error"
        /\ D_pmd = None

\* C12: every detector called with delta <= 0 ends in a precondition error
\* and returns no extrema list.
C12_DeltaPrecondition ==
    (~Positive(delta_db) /\ pc # "call") =>
        /\ pc = "error"
        /\ max_tab = None

\* C12 for the detectors of test_fin.py and test_new_auto_deltaDB.py, which
\* exit on delta <= 0
C12_DeltaPreconditionExits ==
    (~Positive(delta_db) /\ pc # "call" /\ variant \in {"fin", "new"}) =>
        /\ pc = "error" /\ err = "delta must be a positive scalar"
        /\ max_tab = None /\ min_tab = None

----------------------------------------------------------------------------
(* Peaks-only detector against the detector of maxima and minima *)

\* the locals of the two detectors after the first n samples
PeaksAfter(n) ==
    PeakdetPeaksLoop(PeakdetPeaksInit, SubSeq(inten, 1, n), SubSeq(wl, 1, n), delta_db, 1)
BothAfter(n) ==
    PeakdetLoop(PeakdetInit, SubSeq(inten, 1, n), SubSeq(wl, 1, n), delta_db, 1)

\* C13: for delta > 0 peakdet_peaks tracks as peakdet does (the same
\* lookformax, running maximum and minimum and committed maxima after every
\* sample) and returns exactly the maxima peakdet returns, in the same order.
C13_PeaksOnlyEquivalence ==
    (pc = "returned" /\ variant \in {"new", "thr"} /\ Positive(delta_db)) =>
        /\ max_tab = Peakdet(inten, delta_db, wl).maxtab
        /\ \A n \in 0..Len(inten) :
              /\ PeaksAfter(n).lookformax = BothAfter(n).lookformax
              /\ PeaksAfter(n).mx = BothAfter(n).mx
              /\ PeaksAfter(n).mxpos = BothAfter(n).mxpos
              /\ PeaksAfter(n).mn = BothAfter(n).mn
              /\ PeaksAfter(n).mnpos = BothAfter(n).mnpos
              /\ PeaksAfter(n).maxtab = BothAfter(n).maxtab

C13_Witness ==
    /\ pc = "returned" /\ variant = "new" /\ Positive(delta_db)
    /\ Len(max_tab) >= 2
    /\ Len(Peakdet(inten, delta_db, wl).mintab) >= 2

----------------------------------------------------------------------------
(* Noise-based delta *)

NoisePolicy == Auto /\ ~use_scan
\* k_sigma * sigma, for a sigma that is a number
KTimes(sigma) == Real(KSigma, sigma.rad, 0, sigma.den)

\* C14: the noise-based delta is max(floor_db, k_sigma * sigma): it is the
\* larger of the two for every sigma >= 0, it is never below floor_db > 0, and
\* no detector pass of this policy runs with a zero or negative delta.
C14_NoiseDeltaFloor ==
    /\ (Auto /\ pc # "start") =>
          /\ RealGe(initial_delta, Rat(FloorDb, 1))
          /\ Positive(initial_delta)
          /\ ~noise_sigma.nan =>
                /\ RealGe(initial_delta, KTimes(noise_sigma))
                /\ \/ RealEq(initial_delta, Rat(FloorDb, 1))
                   \/ RealEq(initial_delta, KTimes(noise_sigma))
    /\ (NoisePolicy /\ pc \notin {"start", "choose"}) =>
          /\ Positive(delta_db)
          /\ RealGe(initial_delta, delta_db)
          /\ PeakdetExit(inten, delta_db, wl) = "none"
          /\ (variant = "fin" \/ pc = "fallback_test") => delta_db = initial_delta
          /\ (pc = "fallback" /\ k >= 1) => Positive(d)

C14_Witness ==
    /\ NoisePolicy /\ pc = "done"
    /\ ~noise_sigma.nan /\ noise_sigma.rad > 0
    /\ RealGt(initial_delta, Rat(FloorDb, 1))
    /\ delta_db = initial_delta

\* samples in the low-intensity tail: int(0.3 * n), at least 1 in
\* test_new_auto_deltaDB.py
TailSize ==
    IF variant = "new" /\ 3 * Len(inten) <= 10 THEN 1 ELSE (3 * Len(inten)) \div 10

\* C15: when the tail holds fewer than 2 samples, none included, the sigma
\* returned by estimate_noise_db is 0, never NaN.
C15_ShortTailSigma ==
    (Auto /\ pc # "start" /\ TailSize < 2) =>
        /\ ~noise_sigma.nan
        /\ noise_sigma.rad = 0

\* C15 in test_new_auto_deltaDB.py, whose tail never is empty
C15_ShortTailSigmaNew ==
    (variant = "new" /\ pc # "start" /\ TailSize < 2) =>
        /\ ~noise_sigma.nan
        /\ noise_sigma.rad = 0

----------------------------------------------------------------------------
(* Threshold mask *)

Largest(v) == CHOOSE m \in {v[j] : j \in 1..Len(v)} : \A j \in 1..Len(v) : v[j] <= m
\* indices of the samples within threshold_db of the largest
Within == {j \in 1..Len(inten) : inten[j] >= Largest(inten) - threshold_db}
Scenario4 == <<-100, -600, -1000, -160>>

\* C16: the mask keeps exactly the samples with intensity >= max(intensity) -
\* threshold_db, wavelength and intensity index-aligned and in their original
\* order; threshold 20 dB on -5,-30,-50,-8 dB keeps indices 0 and 3 only.
C16_ThresholdMask ==
    (variant = "thr" /\ pc # "start") =>
        /\ Len(x_kept) = Cardinality(Within)
        /\ Len(y_kept) = Cardinality(Within)
        /\ \A j \in 1..Len(y_kept) :
              \E n \in Within :
                  /\ Cardinality({m \in Within : m < n}) = j - 1
                  /\ x_kept[j] = wl[n] /\ y_kept[j] = inten[n]
        /\ (inten = Scenario4 /\ threshold_db = 400) =>
              /\ x_kept = <<wl[1], wl[4]>>
              /\ y_kept = <<-100, -160>>

C16_Witness ==
    /\ variant = "thr" /\ pc = "done"
    /\ inten = Scenario4 /\ threshold_db = 400
    /\ Len(x_kept) = 2

\* C17: with a negative threshold_db the mask returns empty sequences, and
\* the run that follows neither fails nor reports a PMD number computed from
\* the empty data.
C17_DegenerateMask ==
    (variant = "thr" /\ threshold_db < 0 /\ pc # "start") =>
        /\ x_kept = <<>> /\ y_kept = <<>>
        /\ pc # "error"
        /\ delta_t_ps = None /\ D_pmd = None

\* C17, the mask alone: a negative threshold_db leaves no sample
C17_MaskEmpty ==
    (variant = "thr" /\ threshold_db < 0 /\ pc # "start") =>
        x_kept = <<>> /\ y_kept = <<>>

----------------------------------------------------------------------------
(* Order of the passes of the scan *)

\* the table and the delta of the sequential, ascending scan of the scripts
SequentialCounts ==
    IF variant = "fin" THEN ScanCountsFin(inten, wl, deltas)
    ELSE ScanCountsNew(inten, wl, deltas)
SequentialDelta ==
    IF variant = "fin" THEN BestDeltaFin(deltas, SequentialCounts)
    ELSE BestDeltaNew(deltas, SequentialCounts)

----------------------------------------------------------------------------
(* Two runs *)

----------------------------------------------------------------------------
(* Malformed rows *)

WellFormed(row) == Len(row) >= 2 /\ row[1].numeric /\ row[2].numeric

\* C20: a row that does not parse as two floating-point fields is rejected
\* with an error at that row, and none of its fields is appended: wavelength
\* and intensity stay equal in length.
C20_MalformedRow ==
    /\ (pc = "read" /\ rows # <<>> /\ ~WellFormed(Head(rows))) => Len(wl) = Len(inten)
    /\ (pc = "error" /\ err \in {"ValueError", "IndexError"}) =>
          /\ ~WellFormed(Head(rows))
          /\ Len(wl) = Len(inten)

\* C20, the rejection alone: the script stops with an exception at the first
\* malformed row, and only there
C20_RejectedAtRow ==
    /\ pc \in {"read", "start"} => (err = "none" /\ Len(wl) = Len(inten))
    /\ pc = "start" => rows = <<>>
    /\ pc = "error" =>
          /\ err \in {"ValueError", "IndexError"}
          /\ rows # <<>> /\ ~WellFormed(Head(rows))

----------------------------------------------------------------------------
(* Measurement loops *)

Measured == 1..(i - 1)

\* C21: a failure to read or save trace n is reported and the trace is
\* skipped, the loop goes on and is only left for the cleanup, and no CSV
\* file is written for a trace with no data.
C21_BatchRobust ==
    /\ pc = "crashed" => err = "VisaIOError"
    /\ pc = "finished" => i = NMeasurements + 1
    /\ pc \in {"loop", "finished"} =>
          \A n \in Measured : (n \in DOMAIN files) # (n \in reported)
    /\ \A n \in DOMAIN files : files[n] # <<>>

\* C21 in OSA_polarizer_works_trace_A_only.py, which tests for empty data
C21_BatchRobustA ==
    variant = "osa_A" =>
        /\ pc = "crashed" => err = "VisaIOError"
        /\ pc = "finished" => i = NMeasurements + 1
        /\ pc \in {"loop", "finished"} =>
              \A n \in Measured : (n \in DOMAIN files) # (n \in reported)
        /\ \A n \in DOMAIN files : files[n] # <<>>

\* C21, the progress of the loop: every read and every save comes back to the
\* head of the loop, and the script ends in its cleanup unless a sweep
\* command failed
C21_ReachesCleanup ==
    /\ (pc \in {"read", "save"}) ~> (pc = "loop")
    /\ <>(pc \in {"finished", "crashed"})

----------------------------------------------------------------------------
(* Counting conventions *)

\* the delay a is m times the delay b over n: a * n = m * b, for delays over
\* the same wavelengths
Times(a, m, b, n) ==
    /\ a.lam = b.lam /\ a.c0 = b.c0
    /\ a.span # 0 /\ b.span # 0
    /\ a.num * n * b.span = m * b.num * a.span

PeaksOnly(N) == DeltaTPs(N, lambda_min, lambda_max, 1)
PeaksAndValleys(N) == DeltaTPs(N, lambda_min, lambda_max, 2)

\* C22: for the same count, wavelengths and fibre the delta_t of the
\* peaks-only scripts is exactly twice that of the peaks-and-valleys scripts,
\* and in both delta_t is proportional to the count.
C22_CountingConventions ==
    pc = "done" =>
        /\ variant \in {"new", "thr"} =>
              /\ Times(delta_t_ps, 2, PeaksAndValleys(N_ext), 1)
              /\ \A n \in 0..LongLen : Times(delta_t_ps, N_ext, PeaksOnly(n), n)
        /\ variant \in {"fin", "nosg"} =>
              /\ Times(PeaksOnly(N_ext), 2, delta_t_ps, 1)
              /\ \A n \in 0..LongLen : Times(delta_t_ps, N_ext, PeaksAndValleys(n), n)

C22_Witness ==
    /\ pc = "done" /\ variant = "new"
    /\ N_ext = 2
    /\ delta_t_ps = [num |-> 2 * KMilli, lam |-> 1580 * 1710, c0 |-> C0, span |-> 130]

C22_WitnessBoth ==
    /\ pc = "done" /\ variant = "fin"
    /\ N_ext = 3
    /\ delta_t_ps = [num |-> 3 * KMilli, lam |-> 1580 * 1710, c0 |-> C0, span |-> 260]

----------------------------------------------------------------------------
(* Parity of the committed extrema *)

\* the state in which peakdet leaves its loop on the trace of the script
AtEnd == PeakdetLoop(PeakdetInit, inten, wl, delta_db, 1)

\* the first committed extremum is a maximum, and there is one maximum more
\* than minima exactly while a minimum is looked for
Balanced(mt, nt, look) ==
    /\ Len(mt) - Len(nt) = (IF look THEN 0 ELSE 1)
    /\ Len(nt) > 0 => Len(mt) > 0 /\ PosOf(mt[1]) < PosOf(nt[1])

\* C23: at every step of the scan of peakdet and at its end the first
\* committed extremum is a maximum and len(maxima) - len(minima) is 0 when a
\* maximum is looked for, 1 when a minimum is; the extrema count is odd
\* exactly when the scan ends while tracking a minimum.
C23_Parity ==
    /\ pc = "scan" => Balanced(det.maxtab, det.mintab, det.lookformax)
    /\ (Detected /\ BothMode) =>
          /\ Balanced(max_tab, min_tab, AtEnd.lookformax)
          /\ (N_ext % 2 = 1) <=> ~AtEnd.lookformax

C23_Witness ==
    /\ pc = "scan" /\ ~det.lookformax
    /\ Len(det.maxtab) = 2 /\ Len(det.mintab) = 1

C23_WitnessEnd ==
    /\ pc = "done" /\ variant = "fin"
    /\ N_ext = 3 /\ ~AtEnd.lookformax

----------------------------------------------------------------------------
(* Committed extrema are the extrema of their swings *)

\* the sample at which the extremum e was found
IndexOf(e) == CHOOSE j \in 1..Len(wl) : wl[j] = PosOf(e)

\* the first sample after j0 that lies more than delta_db below (sign = 1) or
\* above (sign = -1) the value of e: the sample that makes peakdet commit e
Trigger(e, sign) ==
    LET far(t) == Exceeds(sign * (ValOf(e) - inten[t]), delta_db)
        after == {t \in (IndexOf(e) + 1)..Len(inten) : far(t)}
    IN IF after = {} THEN 0 ELSE Least(after)

\* e is at sample lo..hi, no sample of lo..hi lies beyond it (above for
\* sign = 1, below for sign = -1) and none before it has its value
ExtremeOf(e, lo, hi, sign) ==
    /\ Committed(e)
    /\ \E j \in 1..Len(wl) : wl[j] = PosOf(e)
    /\ inten[IndexOf(e)] = ValOf(e)
    /\ lo <= IndexOf(e) /\ IndexOf(e) <= hi
    /\ \A t \in lo..hi :
          /\ sign * inten[t] <= sign * ValOf(e)
          /\ inten[t] = ValOf(e) => IndexOf(e) <= t

\* the maxima mt and the minima nt of peakdet are the extrema of their swings
Swings(mt, nt) ==
    /\ \A j \in 1..Len(mt) :
          ExtremeOf(mt[j],
                    IF j = 1 THEN 1 ELSE IndexOf(nt[j - 1]),
                    IF j <= Len(nt) THEN IndexOf(nt[j]) ELSE Trigger(mt[j], 1),
                    1)
    /\ \A j \in 1..Len(nt) :
          ExtremeOf(nt[j],
                    IndexOf(mt[j]),
                    IF j < Len(mt) THEN IndexOf(mt[j + 1]) ELSE Trigger(nt[j], -1),
                    -1)

\* C24: every maximum committed by peakdet and by peakdet_peaks is >= every
\* sample from the preceding committed minimum (or the start of the trace) to
\* the following committed minimum (or the sample that made it commit) and is
\* the earliest sample of that range with its value; symmetrically for the
\* committed minima. For peakdet_peaks, which keeps no minima, the minima are
\* those peakdet commits on the same trace.
C24_SwingExtrema ==
    Detected =>
        /\ BothMode => Swings(max_tab, min_tab)
        /\ variant = "new" =>
              Swings(max_tab, Peakdet(inten, delta_db, wl).mintab)

\* a maximum found twice in its swing, committed at the first of the two
C24_Witness ==
    /\ pc = "done" /\ variant = "fin"
    /\ Len(max_tab) >= 1 /\ Len(min_tab) >= 1
    /\ \E t \in 1..Len(inten) :
          /\ t > IndexOf(max_tab[1]) /\ t < IndexOf(min_tab[1])
          /\ inten[t] = ValOf(max_tab[1])

C24_WitnessPeaks ==
    /\ pc = "done" /\ variant = "new"
    /\ Len(max_tab) >= 2
    /\ \E t \in 1..Len(inten) :
          /\ t > IndexOf(max_tab[1]) /\ t < IndexOf(max_tab[2])
          /\ inten[t] = ValOf(max_tab[1])

----------------------------------------------------------------------------
(* The scan returns a candidate inside the selected run *)

\* the runs the loop of choose_delta_scan can select: any run in test_fin.py,
\* a run of non-zero count in test_new_auto_deltaDB.py
Selectable(cs) == IF variant = "fin" THEN Runs(cs) ELSE NonZeroRuns(cs)

\* the run the loop selects: the first of the longest
Selected(cs) ==
    First({r \in Selectable(cs) : \A q \in Selectable(cs) : RunLen(q) <= RunLen(r)})

\* C25: the delta choose_delta_scan returns is one of the scanned candidates,
\* so it lies in [scan_min, scan_max]; when a run is selected the midpoint
\* index lies inside that run, and the count recomputed at the returned delta
\* is the count of that run.
C25_ScanCandidate ==
    /\ JustChosen =>
          /\ \E j \in 1..Len(deltas) : delta_db = deltas[j]
          /\ RealGe(delta_db, Rat(ScanMin, 1)) /\ RealGe(Rat(ScanMax, 1), delta_db)
          /\ Selectable(counts) # {} =>
                /\ Selected(counts)[1] <= Mid(Selected(counts))
                /\ Mid(Selected(counts)) <= Selected(counts)[2]
                /\ delta_db = deltas[Mid(Selected(counts))]
    /\ (use_scan /\ pc \in {"pmd", "done"} /\ Selectable(counts) # {}) =>
          /\ delta_db = deltas[Mid(Selected(counts))]
          /\ N_ext = counts[Selected(counts)[1]]

\* a run that does not start the table is selected and the count recomputed
\* at its midpoint
C25_Witness ==
    /\ use_scan /\ pc = "done" /\ variant = "fin"
    /\ Selected(counts)[1] > 1 /\ RunLen(Selected(counts)) >= 2
    /\ Mid(Selected(counts)) > Selected(counts)[1]
    /\ delta_db = deltas[Mid(Selected(counts))]
    /\ N_ext = counts[Selected(counts)[1]]

\* a run of non-zero count is selected, shorter than the table
C25_WitnessNew ==
    /\ use_scan /\ pc = "done" /\ variant = "new"
    /\ Selectable(counts) # {}
    /\ RunLen(Selected(counts)) < Len(counts) /\ Mid(Selected(counts)) > 1
    /\ N_ext = counts[Selected(counts)[1]] /\ N_ext > 0

----------------------------------------------------------------------------
(* The fallback after a scan *)

\* test_new_auto_deltaDB.py with the scan on, past the test that opens the
\* fallback
ScanDecided ==
    /\ variant = "new" /\ use_scan /\ counts # None
    /\ pc \in {"fallback", "detect", "pmd", "done", "error"}

\* the fallback loop was entered: it is running, or it has probed
Entered == pc = "fallback" \/ k > 0

AllZero(cs) == \A j \in 1..Len(cs) : cs[j] = 0

\* C26: in test_new_auto_deltaDB.py with the scan enabled the fallback loop is
\* entered if and only if every scanned candidate counts zero peaks; if some
\* scanned delta yields a peak, the delta finally used yields at least one
\* peak and N_peaks > 0.
C26_FallbackAfterScan ==
    ScanDecided =>
        /\ Entered <=> AllZero(counts)
        /\ ~AllZero(counts) =>
              /\ Len(PeakdetPeaks(inten, delta_db, wl).maxtab) >= 1
              /\ pc \in {"pmd", "done", "error"} => N_ext > 0

\* some candidates count peaks and some do not; no fallback, peaks reported
C26_Witness ==
    /\ ScanDecided /\ pc = "done"
    /\ ~AllZero(counts) /\ \E j \in 1..Len(counts) : counts[j] = 0
    /\ k = 0 /\ N_ext > 0

\* no candidate counts a peak; the fallback ran
C26_WitnessAllZero ==
    /\ ScanDecided /\ pc = "done"
    /\ AllZero(counts)
    /\ k > 0

====
